---- MODULE Spec2Model ----
(***************************************************************************)
(* autoVolatility3: a model of the two programs of the repository.         *)
(*                                                                         *)
(*   src/autovol3.py   detect_memory_dump_os, run_volatility_analysis      *)
(*                     (sequential, subprocess.run)                        *)
(*   src/analyzer.py   VolatilityAnalyzer.detect_os, _get_plugins_for_scan,*)
(*                     _run_plugin, run_analysis (asyncio, TaskGroup)      *)
(*                                                                         *)
(* One behaviour of the model is one call of one of these five functions   *)
(* (the variable entry says which).  Strings the code takes apart are      *)
(* sequences of tokens: a plugin id "windows.pslist" is                    *)
(* <<"windows", ".", "pslist">>, a token being a maximal run of letters    *)
(* and digits or one separator character, so that two token sequences are  *)
(* equal exactly when the strings are.  File contents are sequences of     *)
(* bytes.  The external tool, the file system's failures and the order in  *)
(* which the event loop runs ready tasks are nondeterministic choices.     *)
(* The output directory is assumed creatable (os.makedirs / Path.mkdir     *)
(* succeed); logging is not modelled.                                      *)
(***************************************************************************)
EXTENDS Integers, Sequences, FiniteSets, TLC

VARIABLES
    entry,           \* the function called
    pc,              \* its control position
    scan_type,       \* argument scan_type
    scan_os,         \* argument scan_os of _get_plugins_for_scan
    max_concurrent,  \* argument max_concurrent of run_analysis
    json,            \* the resource scans/windows_scan.json
    plugins,         \* the selected plugin list
    idx,             \* index of the next plugin / probe of the loop
    task,            \* run_analysis: state of the task of each plugin
    running_tasks,   \* run_analysis: the local set running_tasks
    started,         \* plugins handed to create_task / subprocess, in order
    outcome,         \* what happened to each plugin's invocation
    files,           \* the output directory: file name -> bytes
    probes,          \* the probes issued by OS detection, in order
    result           \* how the call ended

vars == <<entry, pc, scan_type, scan_os, max_concurrent, json, plugins, idx,
          task, running_tasks, started, outcome, files, probes, result>>

(***************************************************************************)
(* Bounds of the model.                                                    *)
(***************************************************************************)
MaxPlugins == 3      \* longest plugin list of a scans/windows_scan.json
MaxConcurrent == 3   \* largest max_concurrent tried (smallest is -1)
MaxDeviations == 2   \* plugins of one sequential run that fail or write stderr
MaxStale == 1        \* error files an earlier run left in the directory

(***************************************************************************)
(* The scan catalog of autovol3.py.                                        *)
(***************************************************************************)
scan_types_plugins ==
    [minimal |-> << <<"windows", ".", "info">>,
                    <<"windows", ".", "pslist">>,
                    <<"windows", ".", "pstree">>,
                    <<"windows", ".", "cmdline">> >>,
     normal  |-> << <<"windows", ".", "info">>,
                    <<"windows", ".", "pslist">>,
                    <<"windows", ".", "pstree">>,
                    <<"windows", ".", "psxview">>,
                    <<"windows", ".", "modules">>,
                    <<"windows", ".", "netscan">>,
                    <<"windows", ".", "cmdline">>,
                    <<"windows", ".", "malfind">>,
                    <<"windows", ".", "dlllist">> >>,
     \* "windows.sessions" "windows.modules" has no comma between the two
     \* literals: Python concatenates them into one plugin id.
     full    |-> << <<"windows", ".", "info">>,
                    <<"windows", ".", "pslist">>,
                    <<"windows", ".", "pstree">>,
                    <<"windows", ".", "sessionswindows", ".", "modules">>,
                    <<"windows", ".", "dlllist">>,
                    <<"windows", ".", "filescan">>,
                    <<"windows", ".", "netscan">>,
                    <<"windows", ".", "cmdline">>,
                    <<"windows", ".", "sockets">>,
                    <<"windows", ".", "malfind">>,
                    <<"windows", ".", "getsids">>,
                    <<"windows", ".", "scheduled", "_", "tasks">>,
                    <<"windows", ".", "registry", ".", "hivelist">>,
                    <<"windows", ".", "registry", ".", "printkey">> >>]

\* dict.get(key, default): the default is an argument, evaluated by the caller.
DictGetEmptyDefault(d, key, default) ==
    IF key \in DOMAIN d THEN d[key] ELSE <<>>

DictGet(d, key, default) ==
    IF key \in DOMAIN d THEN d[key] ELSE default

\* The selection of run_volatility_analysis.
SelectPlugins(st) == DictGet(scan_types_plugins, st, scan_types_plugins["normal"])

(***************************************************************************)
(* File names.                                                             *)
(***************************************************************************)
\* str.replace(old, new) on a token sequence whose separators are tokens.
Replace(s, old, new) ==
    [i \in 1..Len(s) |-> IF s[i] = old THEN new ELSE s[i]]

\* A naming that keeps only the part of the plugin id before the first dot.
OutputFileNameFirstPart(plugin) == <<plugin[1]>> \o <<".", "txt">>

\* f"{plugin.replace('.', '_')}.txt"
OutputFileName(plugin) == Replace(plugin, ".", "_") \o <<".", "txt">>

\* f"{plugin.replace('.', '_')}_errors.txt"
ErrorFileName(plugin) ==
    Replace(plugin, ".", "_") \o <<"_", "errors", ".", "txt">>

\* write_bytes / open(.., "w") + write: the file holds exactly these bytes.
WriteFile(fs, name, bytes) ==
    [n \in (DOMAIN fs) \cup {name} |-> IF n = name THEN bytes ELSE fs[n]]

\* os.remove / unlink
RemoveFile(fs, name) == [n \in (DOMAIN fs) \ {name} |-> fs[n]]

\* os.path.getsize
GetSize(fs, name) == Len(fs[name])

(***************************************************************************)
(* Inputs.                                                                 *)
(***************************************************************************)
ScanTypeInputs == {"minimal", "normal", "full", "quick"}
OsInputs == {"windows", "linux", "mac", "unknown"}
ConcurrencyInputs == (0 - 1)..MaxConcurrent

\* The bytes the external tool writes.
StdoutBytes == <<"o", "u", "t">>
StderrInputs == {<<>>, <<"w", "a", "r", "n">>}
StaleBytes == <<"o", "l", "d">>

\* Contents of scans/windows_scan.json: absent, unparsable, or an object
\* whose lists are prefixes of the "normal" list above.
PluginPrefix(n) == SubSeq(scan_types_plugins["normal"], 1, n)
JsonLists == {PluginPrefix(n) : n \in 0..MaxPlugins}
JsonKeySets == {{"normal"}, {"minimal", "normal"}, {"minimal"}}
JsonInputs ==
    {[state |-> "missing", data |-> <<>>],
     [state |-> "malformed", data |-> <<>>]}
    \cup {[state |-> "ok", data |-> d] :
             d \in UNION {[K -> JsonLists] : K \in JsonKeySets}}

\* Output directories an earlier run can have left: error files of some of
\* the first MaxStale plugins of the catalog.
StaleDir(n) ==
    [name \in {ErrorFileName(scan_types_plugins["normal"][i]) : i \in 1..n}
        |-> StaleBytes]
DirInputs == {StaleDir(n) : n \in 0..MaxStale}

NoJson == [state |-> "missing", data |-> <<>>]
Pending == [kind |-> "pending", exc |-> "", os |-> ""]
Returned == [kind |-> "return", exc |-> "", os |-> ""]
ReturnedNone == [kind |-> "return_None", exc |-> "", os |-> ""]
ReturnedOs(os) == [kind |-> "return", exc |-> "", os |-> os]
Raised(e) == [kind |-> "raise", exc |-> e, os |-> ""]

NoOutcome == [kind |-> "none", stderr |-> <<>>]
NoOutcomes(ps) == [i \in 1..Len(ps) |-> NoOutcome]
Unstarted(ps) == [i \in 1..Len(ps) |-> "unstarted"]

(***************************************************************************)
(* autovol3.py: run_volatility_analysis.                                   *)
(***************************************************************************)
\* What can happen to one iteration of the plugin loop: open(output_file)
\* raises, open(error_file) raises, subprocess.run raises, or the tool runs
\* and writes its stderr.
OkOutcome(stderr) == [kind |-> "ok", stderr |-> stderr]
FailKinds == {"open_out_fail", "open_err_fail", "launch_fail"}
SequentialOutcomes ==
    {[kind |-> k, stderr |-> <<>>] : k \in FailKinds}
    \cup {OkOutcome(s) : s \in StderrInputs}

\* Iterations so far that were not a clean run with empty stderr.
Deviations(oc) ==
    Cardinality({i \in DOMAIN oc : oc[i].kind # "none" /\ oc[i] # OkOutcome(<<>>)})

\* The directory after one iteration of the loop (the body of the try and
\* its except, which only prints).
SequentialPluginFiles(fs, plugin, o) ==
    LET out == OutputFileName(plugin)
        err == ErrorFileName(plugin)
        opened_out == WriteFile(fs, out, <<>>)
        opened_both == WriteFile(opened_out, err, <<>>)
        written == WriteFile(WriteFile(opened_both, out, StdoutBytes), err, o.stderr)
    IN  CASE o.kind = "open_out_fail" -> fs
          [] o.kind = "open_err_fail" -> opened_out
          [] o.kind = "launch_fail" -> opened_both
          [] o.kind = "ok" -> IF GetSize(written, err) > 0
                                THEN written
                                ELSE RemoveFile(written, err)

\* os.makedirs(output_dir, exist_ok=True) and the selection of the list.
RVA_Setup ==
    /\ entry = "run_volatility_analysis"
    /\ pc = "start"
    /\ plugins' = SelectPlugins(scan_type)
    /\ outcome' = NoOutcomes(plugins')
    /\ idx' = 1
    /\ pc' = "loop"
    /\ UNCHANGED <<entry, scan_type, scan_os, max_concurrent, json, task,
                   running_tasks, started, files, probes, result>>

\* One iteration of "for plugin in plugins".
RVA_Plugin ==
    /\ entry = "run_volatility_analysis"
    /\ pc = "loop"
    /\ idx <= Len(plugins)
    /\ \E o \in SequentialOutcomes :
          /\ o # OkOutcome(<<>>) => Deviations(outcome) < MaxDeviations
          /\ outcome' = [outcome EXCEPT ![idx] = o]
          /\ files' = SequentialPluginFiles(files, plugins[idx], o)
    /\ started' = Append(started, plugins[idx])
    /\ idx' = idx + 1
    /\ UNCHANGED <<entry, pc, scan_type, scan_os, max_concurrent, json, plugins,
                   task, running_tasks, probes, result>>

\* The loop is exhausted: return output_dir.
RVA_Return ==
    /\ entry = "run_volatility_analysis"
    /\ pc = "loop"
    /\ idx > Len(plugins)
    /\ pc' = "done"
    /\ result' = Returned
    /\ UNCHANGED <<entry, scan_type, scan_os, max_concurrent, json, plugins, idx,
                   task, running_tasks, started, outcome, files, probes>>

(***************************************************************************)
(* analyzer.py: _get_plugins_for_scan.                                     *)
(***************************************************************************)
\* The value or exception of _get_plugins_for_scan, with the list returned.
\* The three except clauses log and re-raise; a KeyError of
\* scan_types_plugins['normal'] has no clause and propagates as it is.  A
\* scan_os other than "windows" skips the if and falls off the end of the
\* function, which returns None.
GetPluginsForScan(js, st, os) ==
    IF os = "windows"
    THEN IF js.state = "missing"
         THEN [res |-> Raised("FileNotFoundError"), list |-> <<>>]
         ELSE IF js.state = "malformed"
         THEN [res |-> Raised("JSONDecodeError"), list |-> <<>>]
         ELSE IF "normal" \notin DOMAIN js.data
         THEN [res |-> Raised("KeyError"), list |-> <<>>]
         ELSE [res |-> Returned,
               list |-> DictGet(js.data, st, js.data["normal"])]
    ELSE [res |-> ReturnedNone, list |-> <<>>]

\* A call of _get_plugins_for_scan(scan_type, scan_os).
GPS_Call ==
    /\ entry = "_get_plugins_for_scan"
    /\ pc = "start"
    /\ LET r == GetPluginsForScan(json, scan_type, scan_os)
       IN  /\ result' = r.res
           /\ plugins' = r.list
    /\ pc' = "done"
    /\ UNCHANGED <<entry, scan_type, scan_os, max_concurrent, json, idx, task,
                   running_tasks, started, outcome, files, probes>>

(***************************************************************************)
(* analyzer.py: run_analysis and _run_plugin.                              *)
(***************************************************************************)
\* The slot test that admits one task too many.
SlotsFullOffByOne(running, k) == Cardinality(running) > k

\* The slot test that waits one task too early.
SlotsFullEarly(running, k) == Cardinality(running) >= k - 1

\* while len(running_tasks) >= max_concurrent
SlotsFull(running, k) == Cardinality(running) >= k

\* The second component of asyncio.wait(.., FIRST_COMPLETED): the tasks of
\* the set that are not done when the waiter wakes up.
StillPending(running, t) == {i \in running : t[i] # "done"}

\* A task group that does not wait for its tasks.
TaskGroupJoinedNoWait(t) == TRUE

\* TaskGroup.__aexit__ returns when no task of the group is unfinished.
TaskGroupJoined(t) == \A i \in DOMAIN t : t[i] # "created"

\* _run_plugin: the argument list of create_subprocess_exec reads
\* self.PYTHON, and __init__ sets only self.PYTHON3, so the evaluation raises
\* AttributeError before a process exists; "except Exception" logs it.  No
\* file is written or removed.
RunPluginOutcome == [kind |-> "AttributeError", stderr |-> <<>>]
RunPluginFiles(fs, plugin) == fs

\* plugins = self._get_plugins_for_scan(scan_type); self.output_dir.mkdir(..)
RA_Setup ==
    /\ entry = "run_analysis"
    /\ pc = "start"
    /\ LET r == GetPluginsForScan(json, scan_type, "windows")
       IN  IF r.res.kind = "raise"
           THEN /\ pc' = "done"
                /\ result' = r.res
                /\ UNCHANGED <<plugins, outcome, task, idx>>
           ELSE /\ pc' = "loop"
                /\ plugins' = r.list
                /\ outcome' = NoOutcomes(r.list)
                /\ task' = Unstarted(r.list)
                /\ idx' = 1
                /\ UNCHANGED result
    /\ UNCHANGED <<entry, scan_type, scan_os, max_concurrent, json,
                   running_tasks, started, files, probes>>

\* A slot is free: tg.create_task(self._run_plugin(plugin)) and
\* running_tasks.add(task).
RA_CreateTask ==
    /\ entry = "run_analysis"
    /\ pc = "loop"
    /\ idx <= Len(plugins)
    /\ ~SlotsFull(running_tasks, max_concurrent)
    /\ task' = [task EXCEPT ![idx] = "created"]
    /\ running_tasks' = running_tasks \cup {idx}
    /\ started' = Append(started, plugins[idx])
    /\ idx' = idx + 1
    /\ UNCHANGED <<entry, pc, scan_type, scan_os, max_concurrent, json, plugins,
                   outcome, files, probes, result>>

\* No slot is free: asyncio.wait(running_tasks, ..).  It raises ValueError
\* for an empty set; the task group wraps the error of its body in an
\* ExceptionGroup and run_analysis ends with it.
RA_BeginWait ==
    /\ entry = "run_analysis"
    /\ pc = "loop"
    /\ idx <= Len(plugins)
    /\ SlotsFull(running_tasks, max_concurrent)
    /\ IF running_tasks = {}
       THEN /\ pc' = "done"
            /\ result' = Raised("ExceptionGroup(ValueError)")
       ELSE /\ pc' = "wait"
            /\ UNCHANGED result
    /\ UNCHANGED <<entry, scan_type, scan_os, max_concurrent, json, plugins, idx,
                   task, running_tasks, started, outcome, files, probes>>

\* asyncio.wait returns once a task of the set is done:
\* done, running_tasks = await asyncio.wait(..)
RA_WaitReturn ==
    /\ entry = "run_analysis"
    /\ pc = "wait"
    /\ \E i \in running_tasks : task[i] = "done"
    /\ running_tasks' = StillPending(running_tasks, task)
    /\ pc' = "loop"
    /\ UNCHANGED <<entry, scan_type, scan_os, max_concurrent, json, plugins, idx,
                   task, started, outcome, files, probes, result>>

\* The for loop is exhausted: the body of "async with" ends and the task
\* group waits for its tasks.
RA_ExitBody ==
    /\ entry = "run_analysis"
    /\ pc = "loop"
    /\ idx > Len(plugins)
    /\ pc' = "join"
    /\ UNCHANGED <<entry, scan_type, scan_os, max_concurrent, json, plugins, idx,
                   task, running_tasks, started, outcome, files, probes, result>>

\* The event loop runs the task of plugin i while run_analysis is suspended
\* (in asyncio.wait or in the exit of the task group).  _run_plugin has no
\* suspension point before it ends, so the task runs to its end in one step.
RunPlugin(i) ==
    /\ entry = "run_analysis"
    /\ pc \in {"wait", "join"}
    /\ task[i] = "created"
    /\ task' = [task EXCEPT ![i] = "done"]
    /\ outcome' = [outcome EXCEPT ![i] = RunPluginOutcome]
    /\ files' = RunPluginFiles(files, plugins[i])
    /\ UNCHANGED <<entry, pc, scan_type, scan_os, max_concurrent, json, plugins,
                   idx, running_tasks, started, probes, result>>

\* Every task of the group has ended: run_analysis returns.
RA_Return ==
    /\ entry = "run_analysis"
    /\ pc = "join"
    /\ TaskGroupJoined(task)
    /\ pc' = "done"
    /\ result' = Returned
    /\ UNCHANGED <<entry, scan_type, scan_os, max_concurrent, json, plugins, idx,
                   task, running_tasks, started, outcome, files, probes>>

(***************************************************************************)
(* OS detection.                                                           *)
(***************************************************************************)
\* What a probe of the external tool can do: raise, or end with a stdout.
ProbeStdouts == {<<>>, <<"Windows">>, <<"Linux", "version">>, <<"Mac">>}
ProbeOutcomes ==
    {[raised |-> TRUE, stdout |-> <<>>]}
    \cup {[raised |-> FALSE, stdout |-> s] : s \in ProbeStdouts}

\* A test for the lower-case name of the OS.
ContainsLowered(text, word) ==
    \E i \in 1..Len(text) :
        text[i] = CASE word = "Windows" -> "windows"
                    [] word = "Linux" -> "linux"
                    [] word = "Mac" -> "mac"
                    [] OTHER -> word

\* word in text
Contains(text, word) == \E i \in 1..Len(text) : text[i] = word

\* str.capitalize() of the three OS names.
Capitalize(os) ==
    CASE os = "windows" -> "Windows"
      [] os = "linux" -> "Linux"
      [] os = "mac" -> "Mac"

\* autovol3.py: the candidates in the order of the three blocks of
\* detect_memory_dump_os, and the literal each block looks for.
DMO_Candidates == <<"windows", "linux", "mac">>
DMO_Marker(os) ==
    CASE os = "windows" -> "Windows"
      [] os = "linux" -> "Linux"
      [] os = "mac" -> "Mac"

\* One block of detect_memory_dump_os: subprocess.run with the info plugin
\* of the candidate, then the test of its stdout.  The whole function is in
\* one try: an exception of any probe ends it with "unknown".
DMO_Probe ==
    /\ entry = "detect_memory_dump_os"
    /\ pc = "start"
    /\ idx <= Len(DMO_Candidates)
    /\ \E o \in ProbeOutcomes :
         LET os == DMO_Candidates[idx]
         IN  /\ probes' = Append(probes, [os |-> os, py |-> "python3",
                                          raised |-> o.raised, stdout |-> o.stdout])
             /\ IF o.raised
                THEN /\ pc' = "done"
                     /\ result' = ReturnedOs("unknown")
                     /\ UNCHANGED idx
                ELSE IF Contains(o.stdout, DMO_Marker(os))
                THEN /\ pc' = "done"
                     /\ result' = ReturnedOs(os)
                     /\ UNCHANGED idx
                ELSE /\ idx' = idx + 1
                     /\ UNCHANGED <<pc, result>>
    /\ UNCHANGED <<entry, scan_type, scan_os, max_concurrent, json, plugins,
                   task, running_tasks, started, outcome, files>>

\* No block matched: return "unknown".
DMO_ReturnUnknown ==
    /\ entry = "detect_memory_dump_os"
    /\ pc = "start"
    /\ idx > Len(DMO_Candidates)
    /\ pc' = "done"
    /\ result' = ReturnedOs("unknown")
    /\ UNCHANGED <<entry, scan_type, scan_os, max_concurrent, json, plugins, idx,
                   task, running_tasks, started, outcome, files, probes>>

\* analyzer.py: the attempts of detect_os, os_checks in insertion order and
\* for each the two interpreters.
DO_Attempts ==
    << [os |-> "windows", py |-> "python"], [os |-> "windows", py |-> "python3"],
       [os |-> "linux", py |-> "python"], [os |-> "linux", py |-> "python3"],
       [os |-> "mac", py |-> "python"], [os |-> "mac", py |-> "python3"] >>

\* await self._run_command([..]): VolatilityAnalyzer has no attribute
\* _run_command, so the attribute lookup raises AttributeError and no
\* process is started.
RunCommand == [raised |-> TRUE, stdout |-> <<>>]

\* One pass of the inner loop of detect_os: the try, the test of stdout and
\* the except, which logs a warning and goes on.
DO_Attempt ==
    /\ entry = "detect_os"
    /\ pc = "start"
    /\ idx <= Len(DO_Attempts)
    /\ LET a == DO_Attempts[idx]
           o == RunCommand
       IN  /\ probes' = Append(probes, [os |-> a.os, py |-> a.py,
                                        raised |-> o.raised, stdout |-> o.stdout])
           /\ IF ~o.raised /\ Contains(o.stdout, Capitalize(a.os))
              THEN /\ pc' = "done"
                   /\ result' = ReturnedOs(a.os)
                   /\ UNCHANGED idx
              ELSE /\ idx' = idx + 1
                   /\ UNCHANGED <<pc, result>>
    /\ UNCHANGED <<entry, scan_type, scan_os, max_concurrent, json, plugins,
                   task, running_tasks, started, outcome, files>>

\* The loops are exhausted: return "unknown".
DO_ReturnUnknown ==
    /\ entry = "detect_os"
    /\ pc = "start"
    /\ idx > Len(DO_Attempts)
    /\ pc' = "done"
    /\ result' = ReturnedOs("unknown")
    /\ UNCHANGED <<entry, scan_type, scan_os, max_concurrent, json, plugins, idx,
                   task, running_tasks, started, outcome, files, probes>>

(***************************************************************************)
(* The specification.                                                      *)
(***************************************************************************)
Entries == {"run_volatility_analysis", "run_analysis", "_get_plugins_for_scan",
            "detect_memory_dump_os", "detect_os"}

Init ==
    /\ entry \in Entries
    /\ pc = "start"
    /\ scan_type \in IF entry \in {"run_volatility_analysis", "run_analysis",
                                   "_get_plugins_for_scan"}
                     THEN ScanTypeInputs ELSE {"normal"}
    /\ scan_os \in IF entry = "_get_plugins_for_scan" THEN OsInputs ELSE {"windows"}
    /\ max_concurrent \in IF entry = "run_analysis" THEN ConcurrencyInputs ELSE {5}
    /\ json \in IF entry \in {"run_analysis", "_get_plugins_for_scan"}
                THEN JsonInputs ELSE {NoJson}
    /\ files \in IF entry \in {"run_volatility_analysis", "run_analysis"}
                 THEN DirInputs ELSE {StaleDir(0)}
    /\ plugins = <<>>
    /\ idx = 1
    /\ task = <<>>
    /\ running_tasks = {}
    /\ started = <<>>
    /\ outcome = <<>>
    /\ probes = <<>>
    /\ result = Pending

Next ==
    \/ RVA_Setup
    \/ RVA_Plugin
    \/ RVA_Return
    \/ GPS_Call
    \/ RA_Setup
    \/ RA_CreateTask
    \/ RA_BeginWait
    \/ RA_WaitReturn
    \/ RA_ExitBody
    \/ \E i \in DOMAIN task : RunPlugin(i)
    \/ RA_Return
    \/ DMO_Probe
    \/ DMO_ReturnUnknown
    \/ DO_Attempt
    \/ DO_ReturnUnknown

Spec == Init /\ [][Next]_vars

\* A call of run_analysis alone.  The interpreter and the event loop keep
\* running: while run_analysis or one of its tasks can take a step, one is
\* taken.
RunAnalysisInit == Init /\ entry = "run_analysis"

RunAnalysisNext ==
    \/ RA_Setup
    \/ RA_CreateTask
    \/ RA_BeginWait
    \/ RA_WaitReturn
    \/ RA_ExitBody
    \/ \E i \in DOMAIN task : RunPlugin(i)
    \/ RA_Return

FairSpec == RunAnalysisInit /\ [][RunAnalysisNext]_vars /\ WF_vars(RunAnalysisNext)

(***************************************************************************)
(* Properties.                                                             *)
(***************************************************************************)
RunEntries == {"run_volatility_analysis", "run_analysis"}
DetectEntries == {"detect_memory_dump_os", "detect_os"}

\* The tasks of run_analysis that were created and have not ended.
Active == {i \in DOMAIN task : task[i] = "created"}

\* C1: with max_concurrent >= 1, run_analysis never has more than
\* max_concurrent _run_plugin tasks that were created and have not ended,
\* whatever the length of the list and the order in which the tasks end.
C1_ConcurrencyBound ==
    (entry = "run_analysis" /\ max_concurrent >= 1)
        => Cardinality(Active) <= max_concurrent

\* The bound is met: two tasks are in flight under bound 2 and run_analysis
\* waits for a slot for the third plugin.
C1_Witness ==
    /\ entry = "run_analysis"
    /\ max_concurrent = 2
    /\ Len(plugins) = 3
    /\ pc = "wait"
    /\ idx = 3
    /\ Cardinality(Active) = 2

\* C2: when run_analysis (or run_volatility_analysis) has returned, every
\* plugin of the selected list was started and its invocation has ended; no
\* task is unstarted or unfinished.
C2_ReturnsAfterAllTasks ==
    (entry \in RunEntries /\ pc = "done" /\ result.kind = "return")
        => /\ Len(started) = Len(plugins)
           /\ \A i \in 1..Len(plugins) : outcome[i].kind # "none"
           /\ entry = "run_analysis" => \A i \in 1..Len(plugins) : task[i] = "done"

\* run_analysis has returned from a batch of three plugins under bound 2.
C2_Witness ==
    /\ entry = "run_analysis"
    /\ pc = "done"
    /\ result.kind = "return"
    /\ Len(plugins) = 3
    /\ max_concurrent = 2

\* The failures of the environment of one plugin: its files cannot be
\* opened or the process cannot be launched.
C3_EnvFailures == {"open_out_fail", "open_err_fail", "launch_fail"}

C4_ErrorFileIffStderr ==
    entry \in RunEntries
        => \A i \in DOMAIN outcome :
              outcome[i].kind # "none"
                 => LET err == ErrorFileName(plugins[i])
                    IN  /\ (err \in DOMAIN files) <=> (Len(outcome[i].stderr) > 0)
                        /\ err \in DOMAIN files => files[err] = outcome[i].stderr

C5_RecognizedKeys == {"minimal", "normal", "full"}

\* C5: the lookup returns the list of a recognized scan type, which is not
\* empty for the three scan types of the catalog, and the "normal" list for
\* every other scan type; with a catalog read from the resource, the
\* recognized keys are the keys of the resource.
C5_CatalogLookup ==
    /\ (entry = "run_volatility_analysis" /\ pc # "start")
          => /\ scan_type \in C5_RecognizedKeys
                   => /\ plugins = scan_types_plugins[scan_type]
                      /\ Len(plugins) > 0
             /\ scan_type \notin C5_RecognizedKeys
                   => plugins = scan_types_plugins["normal"]
    /\ (entry \in {"run_analysis", "_get_plugins_for_scan"}
           /\ pc # "start" /\ result.kind \in {"pending", "return"})
          => plugins = IF scan_type \in DOMAIN json.data
                       THEN json.data[scan_type]
                       ELSE json.data["normal"]

\* An unrecognized scan type has selected the nine plugins of "normal".
C5_Witness ==
    /\ entry = "run_volatility_analysis"
    /\ scan_type = "quick"
    /\ pc # "start"
    /\ Len(plugins) = 9

\* C6: a lookup for an OS family other than windows ends with an
\* UnsupportedPlatform error.
C6_UnsupportedPlatform ==
    (entry = "_get_plugins_for_scan" /\ pc = "done" /\ scan_os # "windows")
        => result = Raised("UnsupportedPlatform")

C78_Marker(os) ==
    CASE os = "windows" -> "Windows" [] os = "linux" -> "Linux" [] os = "mac" -> "Mac"

\* The probe ended with a stdout that contains the marker of its candidate.
C78_Matched(p) ==
    /\ ~p.raised
    /\ \E i \in 1..Len(p.stdout) : p.stdout[i] = C78_Marker(p.os)

C78_Probed(os) == \E i \in 1..Len(probes) : probes[i].os = os

\* C7: when detection has ended, a probe that raised was followed by a probe
\* of the next candidate; a windows probe that raised and a linux probe with
\* "Linux" in its stdout give linux; and the result is unknown only if all
\* three candidates were probed and no probe matched.
C7_ProbeErrorContinues ==
    (entry \in DetectEntries /\ pc = "done")
        => /\ \A i \in 1..Len(probes) :
                 (probes[i].raised /\ probes[i].os = "windows") => C78_Probed("linux")
           /\ \A i \in 1..Len(probes) :
                 (probes[i].raised /\ probes[i].os = "linux") => C78_Probed("mac")
           /\ result.os = "unknown"
                 => /\ \A os \in {"windows", "linux", "mac"} : C78_Probed(os)
                    /\ \A i \in 1..Len(probes) : ~C78_Matched(probes[i])

C8_Order ==
    IF entry = "detect_os"
    THEN <<"windows", "windows", "linux", "linux", "mac", "mac">>
    ELSE <<"windows", "linux", "mac">>

\* C8: the probes are issued in the order windows, linux, mac; a probe whose
\* stdout contains the marker of its candidate is the last probe issued and
\* its candidate is the result; and a result other than unknown comes from
\* such a probe.
C8_FirstMatchWins ==
    entry \in DetectEntries
        => /\ Len(probes) <= Len(C8_Order)
           /\ \A i \in 1..Len(probes) : probes[i].os = C8_Order[i]
           /\ \A i \in 1..Len(probes) :
                 C78_Matched(probes[i])
                    => /\ i = Len(probes)
                       /\ pc = "done"
                       /\ result = ReturnedOs(probes[i].os)
           /\ (pc = "done" /\ result.os # "unknown")
                 => /\ Len(probes) > 0
                    /\ C78_Matched(probes[Len(probes)])

\* The windows probe printed no marker, the linux probe matched, and the
\* mac probe was not issued.
C8_Witness ==
    /\ entry = "detect_memory_dump_os"
    /\ pc = "done"
    /\ result = ReturnedOs("linux")
    /\ Len(probes) = 2
    /\ ~probes[1].raised

\* C9: the plugins started in one run are pairwise different, each has two
\* different file names (<id>.txt and <id>_errors.txt, dots as underscores),
\* and no file name of one plugin is a file name of another.
C9_UniqueFileNames ==
    entry \in RunEntries
        => \A i \in 1..Len(started) :
              LET oi == OutputFileName(started[i])
                  ei == ErrorFileName(started[i])
              IN  /\ oi # ei
                  /\ \A j \in (i + 1)..Len(started) :
                        LET oj == OutputFileName(started[j])
                            ej == ErrorFileName(started[j])
                        IN  /\ started[i] # started[j]
                            /\ oi # oj
                            /\ oi # ej
                            /\ ei # oj
                            /\ ei # ej

\* The full scan has run its fourteen plugins.
C9_Witness ==
    /\ entry = "run_volatility_analysis"
    /\ scan_type = "full"
    /\ pc = "done"
    /\ Len(started) = 14

C10_Done ==
    /\ entry = "run_analysis"
    /\ pc = "done"
    /\ result.kind = "return"
    /\ started = plugins
    /\ DOMAIN task = 1..Len(plugins)
    /\ \A i \in DOMAIN task : task[i] = "done"

\* C10 as stated: for every max_concurrent, once run_analysis has its plugin
\* list it eventually returns with a task started for every plugin, in list
\* order, and every task ended.
C10_EveryBound ==
    (entry = "run_analysis" /\ pc = "loop") ~> C10_Done

\* C10, amended: the same for max_concurrent >= 1 or an empty plugin list.
C10_PositiveBound ==
    (entry = "run_analysis" /\ pc = "loop"
        /\ (max_concurrent >= 1 \/ Len(plugins) = 0)) ~> C10_Done

\* run_analysis has returned from three plugins run one at a time.
C10_Witness ==
    /\ entry = "run_analysis"
    /\ max_concurrent = 1
    /\ Len(plugins) = 3
    /\ C10_Done

====
